---- MODULE Spec2Model ----
\* Model of SplitAudio/index.js: the HTTP handler (multipart extraction,
\* response) and splitAudioServer (workspace, transcoder, chunk collection).
\* Strings and buffers are sequences of character / byte codes (Latin-1), so
\* that indexOf, slice, startsWith and toLowerCase are computed, not assumed.
EXTENDS Integers, Sequences, FiniteSets, TLC

\* ---------------------------------------------------------------- bounds
\* largest number of segment files the transcoder writes for one request
MaxChunks == 2
\* number of distinct values crypto.randomUUID() can take in the model
NumUuids == 2
\* longest payload of the audioFile part in the extraction fixtures
MaxPayloadLen == 2
\* largest number of parts in a multipart fixture
MaxParts == 2
\* longest filename in the filename fixtures
MaxNameLen == 3

\* ------------------------------------------------------ string literals
\* 'multipart/form-data'
str_multipart ==
    <<109, 117, 108, 116, 105, 112, 97, 114, 116, 47, 102, 111, 114, 109, 45, 100, 97, 116, 97>>
\* 'boundary='
str_boundaryEq ==
    <<98, 111, 117, 110, 100, 97, 114, 121, 61>>
\* '--'
str_dashdash ==
    <<45, 45>>
\* '\r\n'
str_crlf ==
    <<13, 10>>
\* '\r\n\r\n'
str_crlfcrlf ==
    <<13, 10, 13, 10>>
\* 'name="'
str_nameEqQ ==
    <<110, 97, 109, 101, 61, 34>>
\* 'filename="'
str_filenameEqQ ==
    <<102, 105, 108, 101, 110, 97, 109, 101, 61, 34>>
\* 'audioFile'
str_audioFile ==
    <<97, 117, 100, 105, 111, 70, 105, 108, 101>>
\* 'input'
str_input ==
    <<105, 110, 112, 117, 116>>
\* 'input.'
str_inputDot ==
    <<105, 110, 112, 117, 116, 46>>
\* 'mp3'
str_mp3 ==
    <<109, 112, 51>>
\* 'chunk_'
str_chunk_ ==
    <<99, 104, 117, 110, 107, 95>>
\* '.mp3'
str_dotmp3 ==
    <<46, 109, 112, 51>>
\* 'split-'
str_split ==
    <<115, 112, 108, 105, 116, 45>>
\* 'tmp'
str_tmp ==
    <<116, 109, 112>>
\* 'audio/mpeg'
str_audioMpeg ==
    <<97, 117, 100, 105, 111, 47, 109, 112, 101, 103>>
\* 'Content-Type must be multipart/form-data'
msg_badContentType ==
    <<67, 111, 110, 116, 101, 110, 116, 45, 84, 121, 112, 101, 32, 109, 117, 115, 116, 32, 98, 101, 32, 109, 117, 108, 116, 105, 112, 97, 114, 116, 47, 102, 111, 114, 109, 45, 100, 97, 116, 97>>
\* 'Missing boundary in Content-Type'
msg_missingBoundary ==
    <<77, 105, 115, 115, 105, 110, 103, 32, 98, 111, 117, 110, 100, 97, 114, 121, 32, 105, 110, 32, 67, 111, 110, 116, 101, 110, 116, 45, 84, 121, 112, 101>>
\* 'Invalid multipart payload'
msg_invalidPayload ==
    <<73, 110, 118, 97, 108, 105, 100, 32, 109, 117, 108, 116, 105, 112, 97, 114, 116, 32, 112, 97, 121, 108, 111, 97, 100>>
\* 'Malformed multipart headers'
msg_malformedHeaders ==
    <<77, 97, 108, 102, 111, 114, 109, 101, 100, 32, 109, 117, 108, 116, 105, 112, 97, 114, 116, 32, 104, 101, 97, 100, 101, 114, 115>>
\* 'Missing form field "audioFile"'
msg_missingField ==
    <<77, 105, 115, 115, 105, 110, 103, 32, 102, 111, 114, 109, 32, 102, 105, 101, 108, 100, 32, 34, 97, 117, 100, 105, 111, 70, 105, 108, 101, 34>>
\* 'Malformed multipart payload (no closing boundary)'
msg_noClosing ==
    <<77, 97, 108, 102, 111, 114, 109, 101, 100, 32, 109, 117, 108, 116, 105, 112, 97, 114, 116, 32, 112, 97, 121, 108, 111, 97, 100, 32, 40, 110, 111, 32, 99, 108, 111, 115, 105, 110, 103, 32, 98, 111, 117, 110, 100, 97, 114, 121, 41>>
\* 'Error processing audio'
msg_errorProcessing ==
    <<69, 114, 114, 111, 114, 32, 112, 114, 111, 99, 101, 115, 115, 105, 110, 103, 32, 97, 117, 100, 105, 111>>

\* character codes used by the code's literals and regular expressions
ch_quote == 34
ch_dot   == 46
ch_slash == 47
ch_cr    == 13
ch_lf    == 10

\* ------------------------------------------------- JavaScript primitives
SetMin(S) == CHOOSE x \in S : \A y \in S : x <= y
SetMax(S) == CHOOSE x \in S : \A y \in S : x >= y

\* String.prototype.startsWith
StartsWith(s, prefix) ==
    /\ Len(s) >= Len(prefix)
    /\ SubSeq(s, 1, Len(prefix)) = prefix

\* true when needle occurs in s at 0-based index i
OccursAt(s, needle, i) ==
    /\ i >= 0
    /\ i + Len(needle) <= Len(s)
    /\ SubSeq(s, i + 1, i + Len(needle)) = needle

\* String.prototype.indexOf(needle, from): 0-based index of the first
\* occurrence at or after from, -1 when there is none
IndexOf(s, needle, from) ==
    LET hits == {i \in 0..Len(s) : i >= from /\ OccursAt(s, needle, i)}
    IN  IF hits = {} THEN -1 ELSE SetMin(hits)

\* String.prototype.lastIndexOf for a single character
LastIndexOfChar(s, c) ==
    LET hits == {i \in 0..(Len(s) - 1) : s[i + 1] = c}
    IN  IF hits = {} THEN -1 ELSE SetMax(hits)

\* slice(a, b) of a string or a Buffer: 0-based, end exclusive, clamped
Slice(s, a, b) ==
    LET lo == IF a < 0 THEN 0 ELSE IF a > Len(s) THEN Len(s) ELSE a
        hi == IF b < 0 THEN 0 ELSE IF b > Len(s) THEN Len(s) ELSE b
    IN  IF lo >= hi THEN << >> ELSE SubSeq(s, lo + 1, hi)

\* String.prototype.toLowerCase on the ASCII range
ToLowerCase(s) ==
    [i \in 1..Len(s) |-> IF s[i] >= 65 /\ s[i] <= 90 THEN s[i] + 32 ELSE s[i]]

\* Buffer.toString('latin1'): every byte becomes the character of the same
\* code, so string indices are byte offsets
ToLatin1(buf) ==
    [i \in 1..Len(buf) |-> buf[i] % 256]

\* firstMatch of /<key>([^"]+)"/ where key ends with the opening quote:
\* the capture group, or << >> when the expression does not match
MatchQuoted(s, key) ==
    LET CloseAt(i) == IndexOf(s, <<ch_quote>>, i + Len(key))
        hits == {i \in 0..Len(s) :
                    /\ OccursAt(s, key, i)
                    /\ CloseAt(i) > i + Len(key)}
    IN  IF hits = {} THEN << >>
        ELSE LET i == SetMin(hits)
             IN  Slice(s, i + Len(key), CloseAt(i))

\* contentType.match(/boundary=(.+)$/): the capture group, or << >> when
\* the expression does not match ('.' excludes line terminators)
MatchBoundary(contentType) ==
    LET NoEol(t) == \A k \in 1..Len(t) : t[k] # ch_cr /\ t[k] # ch_lf
        Rest(i) == Slice(contentType, i + Len(str_boundaryEq), Len(contentType))
        hits == {i \in 0..Len(contentType) :
                    /\ OccursAt(contentType, str_boundaryEq, i)
                    /\ Len(Rest(i)) >= 1
                    /\ NoEol(Rest(i))}
    IN  IF hits = {} THEN << >> ELSE Rest(SetMin(hits))

\* ------------------------------------------ handler steps 3-10: extraction
\* req.headers['content-type'] || req.headers['Content-Type'] is modelled as
\* one value; << >> stands for an absent (or empty) header, both falsy.
ContentTypeOk(contentType) ==
    /\ contentType # << >>
    /\ StartsWith(contentType, str_multipart)

boundaryLine(boundary) == str_dashdash \o boundary
closingMarker(boundary) == str_crlf \o str_dashdash \o boundary \o str_dashdash

firstBoundaryIdx(rawStr, boundary) == IndexOf(rawStr, boundaryLine(boundary), 0)

\* skip past "--boundary\r\n"
headerStart(rawStr, boundary) ==
    firstBoundaryIdx(rawStr, boundary) + Len(boundaryLine(boundary)) + 2

headerEnd(rawStr, boundary) ==
    IndexOf(rawStr, str_crlfcrlf, headerStart(rawStr, boundary))

headerSection(rawStr, boundary) ==
    Slice(rawStr, headerStart(rawStr, boundary), headerEnd(rawStr, boundary))

\* nameMatch ? nameMatch[1] : undefined   (<< >> stands for undefined)
fieldName(section) == MatchQuoted(section, str_nameEqQ)
\* filenameMatch ? filenameMatch[1] : undefined
filename(section) == MatchQuoted(section, str_filenameEqQ)

\* variant without the field-name test of step 8
FieldNameOk_NoCheck(name) == TRUE
\* fieldName !== 'audioFile' is the failure
FieldNameOk(name) == name = str_audioFile

\* variant that skips one line break only
dataStart_OffByTwo(hEnd) == hEnd + 2
\* skip past "\r\n\r\n"
dataStart(hEnd) == hEnd + 4

closingIdx(rawStr, boundary) ==
    IndexOf(rawStr, closingMarker(boundary), dataStart(headerEnd(rawStr, boundary)))

\* raw.slice(dataStart, closingIdx)
fileBuffer(raw, boundary) ==
    LET rawStr == ToLatin1(raw)
    IN  Slice(raw, dataStart(headerEnd(rawStr, boundary)), closingIdx(rawStr, boundary))

\* filename || 'input'
originalNameOf(fname) == IF fname = << >> THEN str_input ELSE fname

Rejected(reason) ==
    [status |-> 400, body |-> reason, buffer |-> << >>, originalName |-> << >>]

\* Steps 3-10 of the handler as one function of the request: status 400 with
\* the reason, or status 0 (no response yet) with fileForSplit's fields.
Extraction(contentType, raw) ==
    IF ~ContentTypeOk(contentType) THEN Rejected(msg_badContentType)
    ELSE LET boundary == MatchBoundary(contentType)
             rawStr == ToLatin1(raw)
         IN
         IF boundary = << >> THEN Rejected(msg_missingBoundary)
         ELSE IF firstBoundaryIdx(rawStr, boundary) < 0 THEN Rejected(msg_invalidPayload)
         ELSE IF headerEnd(rawStr, boundary) < 0 THEN Rejected(msg_malformedHeaders)
         ELSE LET section == headerSection(rawStr, boundary)
              IN
              IF ~FieldNameOk(fieldName(section)) THEN Rejected(msg_missingField)
              ELSE IF closingIdx(rawStr, boundary) < 0 THEN Rejected(msg_noClosing)
              ELSE [status |-> 0, body |-> << >>,
                    buffer |-> fileBuffer(raw, boundary),
                    originalName |-> originalNameOf(filename(section))]

\* ------------------------------------------------ getExt and path.join
\* variant that cuts at the first dot (indexOf for lastIndexOf)
getExt_FirstDot(name) ==
    LET idx == IndexOf(name, <<ch_dot>>, 0)
    IN  IF idx >= 0 THEN ToLowerCase(Slice(name, idx + 1, Len(name))) ELSE << >>
getExt(name) ==
    LET idx == LastIndexOfChar(name, ch_dot)
    IN  IF idx >= 0 THEN ToLowerCase(Slice(name, idx + 1, Len(name))) ELSE << >>

\* getExt(originalName) || 'mp3'
extOf(originalName) ==
    IF getExt(originalName) = << >> THEN str_mp3 ELSE getExt(originalName)

\* the segments of a relative path string, split at '/'
RECURSIVE SplitPath(_)
SplitPath(s) ==
    LET i == IndexOf(s, <<ch_slash>>, 0)
    IN  IF i < 0 THEN <<s>>
        ELSE <<Slice(s, 0, i)>> \o SplitPath(Slice(s, i + 1, Len(s)))

\* path.normalize on a list of segments: '' and '.' vanish, '..' pops
RECURSIVE NormalizeSegs(_, _)
NormalizeSegs(acc, segs) ==
    IF segs = << >> THEN acc
    ELSE LET h == Head(segs)
             t == Tail(segs)
         IN  IF h = << >> \/ h = <<ch_dot>> THEN NormalizeSegs(acc, t)
             ELSE IF h = <<ch_dot, ch_dot>>
                  THEN NormalizeSegs(IF acc = << >> THEN acc
                                     ELSE SubSeq(acc, 1, Len(acc) - 1), t)
                  ELSE NormalizeSegs(Append(acc, h), t)

\* path.join(dir, rel) for an absolute dir given as its list of segments.
\* trailing is TRUE when the joined path ends in a separator.
Join(dir, rel) ==
    [path |-> NormalizeSegs(dir, SplitPath(rel)),
     trailing |-> rel # << >> /\ rel[Len(rel)] = ch_slash]

\* os.tmpdir()
tmpdir == <<str_tmp>>

\* join(tmpdir(), `split-${uuid}`); a uuid u is written as the digit u
tempDirOf(u) == Join(tmpdir, str_split \o <<48 + u>>).path

\* join(tempDir, `input.${ext}`)
inputPathOf(dir, originalName) == Join(dir, str_inputDot \o extOf(originalName))

\* variant that collects every entry of the listing
IsChunkName_All(name) == TRUE
\* filename.startsWith('chunk_')
IsChunkName(name) == StartsWith(name, str_chunk_)

\* chunk_%03d.mp3 for segment number i
Pad3(i) == <<48 + ((i \div 100) % 10), 48 + ((i \div 10) % 10), 48 + (i % 10)>>
chunkName(i) == str_chunk_ \o Pad3(i) \o str_dotmp3

\* ------------------------------------------------------ Buffer encoding
\* the character of a 6-bit value in the base64 alphabet
B64Char(v) ==
    IF v < 26 THEN 65 + v
    ELSE IF v < 52 THEN 97 + (v - 26)
    ELSE IF v < 62 THEN 48 + (v - 52)
    ELSE IF v = 62 THEN 43 ELSE 47

\* buffer.toString('base64')
RECURSIVE ToBase64(_)
ToBase64(buf) ==
    IF Len(buf) = 0 THEN << >>
    ELSE IF Len(buf) = 1 THEN
        <<B64Char(buf[1] \div 4), B64Char((buf[1] % 4) * 16), 61, 61>>
    ELSE IF Len(buf) = 2 THEN
        <<B64Char(buf[1] \div 4),
          B64Char((buf[1] % 4) * 16 + (buf[2] \div 16)),
          B64Char((buf[2] % 16) * 4), 61>>
    ELSE
        <<B64Char(buf[1] \div 4),
          B64Char((buf[1] % 4) * 16 + (buf[2] \div 16)),
          B64Char((buf[2] % 16) * 4 + (buf[3] \div 64)),
          B64Char(buf[3] % 64)>> \o ToBase64(SubSeq(buf, 4, Len(buf)))

\* ------------------------------------------------------------ requests
Reqs == {"r1", "r2"}
ReqCode(r) == IF r = "r1" THEN 1 ELSE 2

\* The request fixtures follow the inbound contract: a Content-Type header
\* 'multipart/form-data; boundary=XY' and a body of parts
\*   --XY CRLF Content-Disposition: form-data; name="..."[; filename="..."]
\*   CRLF CRLF payload CRLF        ... closed by --XY-- CRLF
\* A fixture names its parts and one defect (or "none").
\* 'XY'
fx_boundary == <<88, 89>>
\* 'ZZ'
fx_otherBoundary == <<90, 90>>
\* 'multipart/form-data; boundary='
fx_ctPrefix ==
    <<109, 117, 108, 116, 105, 112, 97, 114, 116, 47, 102, 111, 114, 109, 45, 100, 97, 116, 97, 59, 32, 98, 111, 117, 110, 100, 97, 114, 121, 61>>
\* 'Content-Disposition: form-data; name="'
fx_cdName ==
    <<67, 111, 110, 116, 101, 110, 116, 45, 68, 105, 115, 112, 111, 115, 105, 116, 105, 111, 110, 58, 32, 102, 111, 114, 109, 45, 100, 97, 116, 97, 59, 32, 110, 97, 109, 101, 61, 34>>
\* '; filename="'
fx_cdFilename ==
    <<59, 32, 102, 105, 108, 101, 110, 97, 109, 101, 61, 34>>
\* 'text/plain'
fx_textPlain ==
    <<116, 101, 120, 116, 47, 112, 108, 97, 105, 110>>
\* 'other'
fx_other ==
    <<111, 116, 104, 101, 114>>
\* 'a.MP3'
fx_filename ==
    <<97, 46, 77, 80, 51>>

PartHeader(p) ==
    fx_cdName \o p.name \o <<ch_quote>>
    \o (IF p.filename = << >> THEN << >>
        ELSE fx_cdFilename \o p.filename \o <<ch_quote>>)

PartOpen(b, p) == str_dashdash \o b \o str_crlf \o PartHeader(p)

PartBytes(b, p) == PartOpen(b, p) \o str_crlfcrlf \o p.payload \o str_crlf

RECURSIVE PartsBytes(_, _)
PartsBytes(b, parts) ==
    IF parts = << >> THEN << >>
    ELSE PartBytes(b, Head(parts)) \o PartsBytes(b, Tail(parts))

BuildBody(b, parts) ==
    PartsBytes(b, parts) \o str_dashdash \o b \o str_dashdash \o str_crlf

ContentTypeOf(f) ==
    IF f.defect = "no-content-type" THEN << >>
    ELSE IF f.defect = "bad-content-type" THEN fx_textPlain
    ELSE IF f.defect = "no-boundary" THEN str_multipart
    ELSE fx_ctPrefix \o fx_boundary

BodyOf(f) ==
    IF f.defect = "boundary-not-in-body" THEN BuildBody(fx_otherBoundary, f.parts)
    ELSE IF f.defect = "headers-unterminated" THEN PartOpen(fx_boundary, f.parts[1])
    ELSE IF f.defect = "no-closing"
         THEN PartOpen(fx_boundary, f.parts[1]) \o str_crlfcrlf \o f.parts[1].payload
    ELSE BuildBody(fx_boundary, f.parts)

RequestOf(f) == [contentType |-> ContentTypeOf(f), rawBody |-> BodyOf(f)]

Defects ==
    {"no-content-type", "bad-content-type", "no-boundary", "boundary-not-in-body",
     "headers-unterminated", "no-closing"}

AudioPart(fname, payload) ==
    [name |-> str_audioFile, filename |-> fname, payload |-> payload]
OtherPart ==
    [name |-> fx_other, filename |-> << >>, payload |-> <<111, 107>>]

\* the fixtures of the concurrent specification: one well-formed upload, one
\* upload whose only part is not audioFile, and one per defect
CoreFixtures ==
    {[defect |-> "none", parts |-> <<AudioPart(fx_filename, <<1, 255>>)>>],
     [defect |-> "none", parts |-> <<OtherPart>>]}
    \cup {[defect |-> d, parts |-> <<AudioPart(fx_filename, <<1, 255>>)>>] : d \in Defects}

\* --------------------------------------------------------------- state
VARIABLES
    ffmpegPath,    \* require('ffmpeg-static'): "resolved" or "null"
    reqs,          \* the requests of this run
    fx,            \* fx[r]: the fixture request r was built from
    req,           \* req[r]: [contentType, rawBody]
    pc,            \* pc[r]: the await point request r is suspended at
    res,           \* res[r]: context.res, status 0 while unset
    fileForSplit,  \* fileForSplit[r]: [buffer, originalName]
    tempDir,       \* tempDir[r]: path segments, << >> before step 1
    inputPath,     \* inputPath[r]: [path, trailing], as path.join returned it
    allFiles,      \* allFiles[r]: the listing fs.readdir returned
    idx,           \* idx[r]: position of the for-of loop in allFiles[r]
    chunks,        \* chunks[r]: sequence of [name, mime, buffer]
    proc,          \* proc[r]: the FFmpeg child process, [st, wrote]
    dirs,          \* directories of the filesystem (paths)
    files,         \* regular files of the filesystem: set of [path, data]
    issued,        \* uuids crypto.randomUUID() has returned
    launches,      \* launches[r]: number of execFile calls made for r
    written,       \* written[r]: the [name, data] the child of r wrote
    releases,      \* releases[r]: number of fs.rm calls made for r
    stages         \* stages[r]: the stages r has completed, in order

vars ==
    <<ffmpegPath, reqs, fx, req, pc, res, fileForSplit, tempDir, inputPath, allFiles, idx,
      chunks, proc, dirs, files, issued, launches, written, releases, stages>>

inputs == <<ffmpegPath, reqs, fx, req>>
fsVars == <<dirs, files>>
collectVars == <<allFiles, idx, chunks>>
ghostVars == <<launches, written, releases>>

UUIDs == 1..NumUuids

NoRes == [status |-> 0, body |-> << >>, json |-> << >>]
NoFile == [buffer |-> << >>, originalName |-> << >>]
NoPath == [path |-> << >>, trailing |-> FALSE]

InitWith(path, rs, f) ==
    /\ ffmpegPath = path
    /\ reqs = rs
    /\ fx = f
    /\ req = [r \in Reqs |-> RequestOf(f[r])]
    /\ pc = [r \in Reqs |-> "start"]
    /\ res = [r \in Reqs |-> NoRes]
    /\ fileForSplit = [r \in Reqs |-> NoFile]
    /\ tempDir = [r \in Reqs |-> << >>]
    /\ inputPath = [r \in Reqs |-> NoPath]
    /\ allFiles = [r \in Reqs |-> << >>]
    /\ idx = [r \in Reqs |-> 1]
    /\ chunks = [r \in Reqs |-> << >>]
    /\ proc = [r \in Reqs |-> [st |-> "none", wrote |-> 0]]
    /\ dirs = {tmpdir}
    /\ files = {}
    /\ issued = {}
    /\ launches = [r \in Reqs |-> 0]
    /\ written = [r \in Reqs |-> {}]
    /\ releases = [r \in Reqs |-> 0]
    /\ stages = [r \in Reqs |-> << >>]

\* two concurrent requests, each any of the core fixtures; the transcoder
\* binary resolved or not
Init ==
    \E path \in {"resolved", "null"}, f \in [Reqs -> CoreFixtures] :
        InitWith(path, Reqs, f)

\* ---------------------------------------------------------- filesystem
IsUnder(p, dir) ==
    /\ Len(p) > Len(dir)
    /\ SubSeq(p, 1, Len(dir)) = dir

Parent(p) == SubSeq(p, 1, Len(p) - 1)

FilePaths == {f.path : f \in files}

\* the contents fs.readFile(p) returns when p is a regular file
FileData(p) == (CHOOSE f \in files : f.path = p).data

\* the names fs.readdir(dir) returns, as a set
Entries(dir) ==
    {p[Len(p)] : p \in {q \in FilePaths \cup dirs :
                          Len(q) = Len(dir) + 1 /\ IsUnder(q, dir)}}

\* every order in which a directory listing may come back
Listings(names) ==
    {l \in [1..Cardinality(names) -> names] :
        \A i, j \in 1..Cardinality(names) : i # j => l[i] # l[j]}

\* fs.writeFile(path) can succeed: the parent exists, the path names no
\* directory and does not end in a separator
Writable(jp) ==
    /\ ~jp.trailing
    /\ jp.path # << >>
    /\ jp.path \notin dirs
    /\ Parent(jp.path) \in dirs

PutFile(p, data) ==
    {f \in files : f.path # p} \cup {[path |-> p, data |-> data]}

\* fs.rm(dir, {recursive: true, force: true})
DirsAfterRm(dir) == {d \in dirs : d # dir /\ ~IsUnder(d, dir)}
FilesAfterRm(dir) == {f \in files : ~IsUnder(f.path, dir)}

\* ------------------------------------------------------------- actions
Stage(r, name) == stages' = [stages EXCEPT ![r] = Append(@, name)]

\* the catch block of the handler (step 11): status 500, generic body
Catch(r) ==
    /\ res' = [res EXCEPT ![r] =
                  [status |-> 500, body |-> msg_errorProcessing, json |-> << >>]]
    /\ pc' = [pc EXCEPT ![r] = "done"]

\* handler steps 1-10: validate and extract; 400 and return, or go on
Extract(r) ==
    /\ r \in reqs
    /\ pc[r] = "start"
    /\ LET e == Extraction(req[r].contentType, req[r].rawBody)
       IN  IF e.status = 400
           THEN /\ res' = [res EXCEPT ![r] =
                              [status |-> 400, body |-> e.body, json |-> << >>]]
                /\ pc' = [pc EXCEPT ![r] = "done"]
                /\ UNCHANGED <<fileForSplit, stages>>
           ELSE /\ fileForSplit' = [fileForSplit EXCEPT ![r] =
                      [buffer |-> e.buffer, originalName |-> e.originalName]]
                /\ pc' = [pc EXCEPT ![r] = "split"]
                /\ Stage(r, "extract")
                /\ UNCHANGED res
    /\ UNCHANGED <<inputs, tempDir, inputPath, collectVars, proc, fsVars, issued, ghostVars>>

\* variant in which a directory name can repeat
FreshUuids_Any(used) == UUIDs
\* crypto.randomUUID(): a value no earlier call returned
FreshUuids(used) == UUIDs \ used

\* splitAudioServer entry: the ffmpegPath check, then step 1 up to the await
SplitStart(r) ==
    /\ r \in reqs
    /\ pc[r] = "split"
    /\ IF ffmpegPath = "null"
       THEN /\ Catch(r)
            /\ UNCHANGED <<tempDir, issued>>
       ELSE \E u \in FreshUuids(issued) :
                /\ tempDir' = [tempDir EXCEPT ![r] = tempDirOf(u)]
                /\ issued' = issued \cup {u}
                /\ pc' = [pc EXCEPT ![r] = "mkdir"]
                /\ UNCHANGED res
    /\ UNCHANGED <<inputs, fileForSplit, inputPath, collectVars, proc, fsVars, ghostVars, stages>>

\* step 1: await fs.mkdir(tempDir, {recursive: true})
Mkdir(r) ==
    /\ r \in reqs
    /\ pc[r] = "mkdir"
    /\ \/ /\ dirs' = dirs \cup {tempDir[r]}
          /\ pc' = [pc EXCEPT ![r] = "write"]
          /\ Stage(r, "workspace")
          /\ UNCHANGED res
       \/ /\ Catch(r)
          /\ UNCHANGED <<dirs, stages>>
    /\ UNCHANGED <<inputs, fileForSplit, tempDir, inputPath, collectVars, proc, files, issued,
                   ghostVars>>

\* steps 2-3: await fs.writeFile(inputPath, buffer)
WriteInput(r) ==
    /\ r \in reqs
    /\ pc[r] = "write"
    /\ LET jp == inputPathOf(tempDir[r], fileForSplit[r].originalName)
       IN  /\ inputPath' = [inputPath EXCEPT ![r] = jp]
           /\ \/ /\ Writable(jp)
                 /\ files' = PutFile(jp.path, fileForSplit[r].buffer)
                 /\ pc' = [pc EXCEPT ![r] = "launch"]
                 /\ Stage(r, "write")
                 /\ UNCHANGED res
              \/ /\ Catch(r)
                 /\ UNCHANGED <<files, stages>>
    /\ UNCHANGED <<inputs, fileForSplit, tempDir, collectVars, proc, dirs, issued,
                   ghostVars>>

\* variant that does not await the child's exit
AwaitingExit_NoAwait == "readdir"
\* where the handler is suspended after execFile: on the promise that the
\* child's exit callback settles
AwaitingExit == "ffmpeg"

\* step 5: execFile(ffmpegPath, ffmpegArgs, callback); a launch failure
\* reaches the callback as err
Launch(r) ==
    /\ r \in reqs
    /\ pc[r] = "launch"
    /\ launches' = [launches EXCEPT ![r] = @ + 1]
    /\ \/ /\ proc' = [proc EXCEPT ![r] = [st |-> "running", wrote |-> 0]]
          /\ pc' = [pc EXCEPT ![r] = AwaitingExit]
          /\ Stage(r, "launch")
          /\ UNCHANGED res
       \/ /\ Catch(r)
          /\ UNCHANGED <<proc, stages>>
    /\ UNCHANGED <<inputs, fileForSplit, tempDir, inputPath, collectVars, fsVars, issued,
                   written, releases>>

\* the bytes of segment i the child of request r produces (opaque to the
\* handler; they differ by request and by segment, lengths 1 to 3)
ChunkData(r, i) ==
    [k \in 1..((i % 3) + 1) |-> (ReqCode(r) * 100 + i * 10 + k) % 256]

\* the child process writes its next segment file, chunk_%03d.mp3, into
\* the directory of the output pattern
FfmpegWriteChunk(r) ==
    /\ r \in reqs
    /\ proc[r].st = "running"
    /\ proc[r].wrote < MaxChunks
    /\ tempDir[r] \in dirs
    /\ LET i == proc[r].wrote
           name == chunkName(i)
       IN  /\ files' = PutFile(Join(tempDir[r], name).path, ChunkData(r, i))
           /\ written' = [written EXCEPT ![r] =
                             @ \cup {[name |-> name, data |-> ChunkData(r, i)]}]
           /\ proc' = [proc EXCEPT ![r].wrote = i + 1]
    /\ UNCHANGED <<inputs, pc, res, fileForSplit, tempDir, inputPath, collectVars, dirs, issued,
                   launches, releases, stages>>

\* the child terminates and the execFile callback runs: resolve() on exit
\* status 0, reject(err) otherwise
FfmpegExit(r) ==
    /\ r \in reqs
    /\ pc[r] = "ffmpeg"
    /\ proc[r].st = "running"
    /\ proc' = [proc EXCEPT ![r].st = "exited"]
    /\ \/ /\ proc[r].wrote >= 1
          /\ pc' = [pc EXCEPT ![r] = "readdir"]
          /\ Stage(r, "exit")
          /\ UNCHANGED res
       \/ /\ Catch(r)
          /\ UNCHANGED stages
    /\ UNCHANGED <<inputs, fileForSplit, tempDir, inputPath, collectVars, fsVars, issued,
                   ghostVars>>

\* the for-of loop skips, without suspending, the names that are no chunks:
\* the position of the next name the loop reads, Len + 1 when there is none
NextChunkIdx(l, from) ==
    LET c == {i \in from..Len(l) : IsChunkName(l[i])}
    IN  IF c = {} THEN Len(l) + 1 ELSE SetMin(c)

\* step 6: await fs.readdir(tempDir), in whatever order the directory
\* yields its entries
Readdir(r) ==
    /\ r \in reqs
    /\ pc[r] = "readdir"
    /\ \/ /\ tempDir[r] \in dirs
          /\ \E l \in Listings(Entries(tempDir[r])) :
                /\ allFiles' = [allFiles EXCEPT ![r] = l]
                /\ idx' = [idx EXCEPT ![r] = NextChunkIdx(l, 1)]
          /\ pc' = [pc EXCEPT ![r] = "read"]
          /\ Stage(r, "list")
          /\ UNCHANGED <<res, chunks>>
       \/ /\ Catch(r)
          /\ UNCHANGED <<collectVars, stages>>
    /\ UNCHANGED <<inputs, fileForSplit, tempDir, inputPath, proc, fsVars, issued, ghostVars>>

\* step 6, one iteration: await fs.readFile(fullPath), chunks.push(...)
ReadChunk(r) ==
    /\ r \in reqs
    /\ pc[r] = "read"
    /\ idx[r] <= Len(allFiles[r])
    /\ LET name == allFiles[r][idx[r]]
           fullPath == Join(tempDir[r], name).path
       IN  \/ /\ fullPath \in FilePaths
              /\ chunks' = [chunks EXCEPT ![r] =
                    Append(@, [name |-> name, mime |-> str_audioMpeg,
                               buffer |-> FileData(fullPath)])]
              /\ idx' = [idx EXCEPT ![r] = NextChunkIdx(allFiles[r], idx[r] + 1)]
              /\ UNCHANGED <<pc, res>>
           \/ /\ Catch(r)
              /\ UNCHANGED <<chunks, idx>>
    /\ UNCHANGED <<inputs, fileForSplit, tempDir, inputPath, allFiles, proc, fsVars, issued,
                   ghostVars, stages>>

\* step 7: await fs.rm(tempDir, inputPath, {recursive: true, force: true})
Rm(r) ==
    /\ r \in reqs
    /\ pc[r] = "read"
    /\ idx[r] > Len(allFiles[r])
    /\ dirs' = DirsAfterRm(tempDir[r])
    /\ files' = FilesAfterRm(tempDir[r])
    /\ releases' = [releases EXCEPT ![r] = @ + 1]
    /\ pc' = [pc EXCEPT ![r] = "respond"]
    /\ Stage(r, "release")
    /\ UNCHANGED <<inputs, res, fileForSplit, tempDir, inputPath, collectVars, proc, issued,
                   launches, written>>

\* Promise.all(chunks.map(...)): one record per chunk, at the chunk's index
payloadOf(cs) ==
    [i \in 1..Len(cs) |->
        [name |-> cs[i].name, mime |-> cs[i].mime, data |-> ToBase64(cs[i].buffer)]]

\* step 12: encode and set the 200 response
Respond(r) ==
    /\ r \in reqs
    /\ pc[r] = "respond"
    /\ res' = [res EXCEPT ![r] =
                  [status |-> 200, body |-> << >>, json |-> payloadOf(chunks[r])]]
    /\ pc' = [pc EXCEPT ![r] = "done"]
    /\ Stage(r, "respond")
    /\ UNCHANGED <<inputs, fileForSplit, tempDir, inputPath, collectVars, proc, fsVars, issued,
                   ghostVars>>

Next ==
    \/ \E r \in Reqs : Extract(r)
    \/ \E r \in Reqs : SplitStart(r)
    \/ \E r \in Reqs : Mkdir(r)
    \/ \E r \in Reqs : WriteInput(r)
    \/ \E r \in Reqs : Launch(r)
    \/ \E r \in Reqs : FfmpegWriteChunk(r)
    \/ \E r \in Reqs : FfmpegExit(r)
    \/ \E r \in Reqs : Readdir(r)
    \/ \E r \in Reqs : ReadChunk(r)
    \/ \E r \in Reqs : Rm(r)
    \/ \E r \in Reqs : Respond(r)

Spec == Init /\ [][Next]_vars

\* --------------------------------------- single-request specifications
\* the steps of one request up to the write of the input file
NextInput ==
    \/ \E r \in Reqs : Extract(r)
    \/ \E r \in Reqs : SplitStart(r)
    \/ \E r \in Reqs : Mkdir(r)
    \/ \E r \in Reqs : WriteInput(r)

SeqsUpTo(S, n) == UNION {[1..k -> S] : k \in 0..n}

\* payload bytes of the extraction fixtures: CR, LF, '-', and a byte that is
\* no ASCII character
PayloadBytes == {ch_cr, ch_lf, 45, 255}

\* well-formed bodies of 1..MaxParts parts, the audioFile part at position
\* at (0: no such part), every payload of up to MaxPayloadLen bytes
PartsWith(k, at, payload) ==
    [i \in 1..k |-> IF i = at THEN AudioPart(fx_filename, payload) ELSE OtherPart]

ExtractFixtures ==
    {[defect |-> "none", parts |-> PartsWith(k, at, payload)] :
        k \in 1..MaxParts, at \in 0..MaxParts,
        payload \in SeqsUpTo(PayloadBytes, MaxPayloadLen)}

DefaultFixture == [defect |-> "none", parts |-> <<AudioPart(fx_filename, <<1, 255>>)>>]

InitExtract ==
    \E f \in ExtractFixtures :
        InitWith("resolved", {"r1"}, [r \in Reqs |-> IF r = "r1" THEN f ELSE DefaultFixture])

SpecExtract == InitExtract /\ [][NextInput]_vars

\* filename characters of the filename fixtures: 'a', 'B', '.', '/'
NameChars == {97, 66, ch_dot, ch_slash}

\* one well-formed audioFile part whose filename is any string of up to
\* MaxNameLen characters (the empty one: no filename attribute)
NameFixtures ==
    {[defect |-> "none", parts |-> <<AudioPart(fname, <<1, 255>>)>>] :
        fname \in SeqsUpTo(NameChars, MaxNameLen)}

InitExt ==
    \E f \in NameFixtures :
        InitWith("resolved", {"r1"}, [r \in Reqs |-> IF r = "r1" THEN f ELSE DefaultFixture])

SpecExt == InitExt /\ [][Next]_vars

\* ------------------------------------------------ vocabulary of the claims
Done(r) == pc[r] = "done"

HasStage(r, name) == \E i \in 1..Len(stages[r]) : stages[r][i] = name

\* the stages of a request that runs to its 200 response, in order
AllStages ==
    <<"extract", "workspace", "write", "launch", "exit", "list", "release", "respond">>

IsPrefixOf(s, t) == Len(s) <= Len(t) /\ SubSeq(t, 1, Len(s)) = s

\* the request passed extraction / acquired its workspace
Extracted(r) == HasStage(r, "extract")
Acquired(r) == HasStage(r, "workspace")

\* nothing of the request's workspace is left under the temp root
WorkspaceGone(r) ==
    /\ tempDir[r] \notin dirs
    /\ \A f \in files : ~IsUnder(f.path, tempDir[r])

\* the request holds a workspace it has not released and is still running
Live(r) == Acquired(r) /\ releases[r] = 0 /\ ~Done(r)

\* a fixture the extractor must reject, and the reason it must give
FirstPartIsAudio(f) == f.parts[1].name = str_audioFile
MustReject(f) == f.defect \in Defects \/ ~FirstPartIsAudio(f)
ExpectedReason(f) ==
    IF f.defect \in {"no-content-type", "bad-content-type"} THEN msg_badContentType
    ELSE IF f.defect = "no-boundary" THEN msg_missingBoundary
    ELSE IF f.defect = "boundary-not-in-body" THEN msg_invalidPayload
    ELSE IF f.defect = "headers-unterminated" THEN msg_malformedHeaders
    ELSE IF ~FirstPartIsAudio(f) THEN msg_missingField
    ELSE msg_noClosing

\* lexicographic order of two names
LexLess(a, b) ==
    \E k \in 1..(Len(a) + 1) :
        /\ k <= Len(b)
        /\ SubSeq(a, 1, k - 1) = SubSeq(b, 1, k - 1)
        /\ (k = Len(a) + 1 \/ a[k] < b[k])

\* base64 decoding, to read the bytes back out of a response record
B64Val(c) ==
    IF c >= 65 /\ c <= 90 THEN c - 65
    ELSE IF c >= 97 /\ c <= 122 THEN c - 97 + 26
    ELSE IF c >= 48 /\ c <= 57 THEN c - 48 + 52
    ELSE IF c = 43 THEN 62 ELSE 63

RECURSIVE FromBase64(_)
FromBase64(t) ==
    IF Len(t) < 4 THEN << >>
    ELSE LET a == B64Val(t[1])
             b == B64Val(t[2])
             c == B64Val(t[3])
             d == B64Val(t[4])
             rest == FromBase64(SubSeq(t, 5, Len(t)))
         IN  IF t[3] = 61 THEN <<a * 4 + (b \div 16)>>
             ELSE IF t[4] = 61 THEN <<a * 4 + (b \div 16), (b % 16) * 16 + (c \div 4)>>
             ELSE <<a * 4 + (b \div 16), (b % 16) * 16 + (c \div 4), (c % 4) * 64 + d>>
                  \o rest

JsonNames(r) == {res[r].json[i].name : i \in 1..Len(res[r].json)}
WrittenNames(r) == {w.name : w \in written[r]}

\* ------------------------------------------------------------------ C1
\* C1: every request that acquired a workspace has released it exactly once
\* by the time the handler has returned, whatever the exit path: nothing of
\* the workspace is left under the temp root.
C1_WorkspaceReleasedOnEveryExit ==
    \A r \in reqs :
        (Done(r) /\ Acquired(r)) => (releases[r] = 1 /\ WorkspaceGone(r))

\* ------------------------------------------------------------------ C2
\* C2: a request that passed extraction and then failed in a later stage is
\* answered 500 with the generic body and no chunk records, its workspace is
\* removed, and the transcoder was not launched a second time.
C2_FailureIs500WithoutChunksOrWorkspace ==
    \A r \in reqs :
        (Done(r) /\ Extracted(r) /\ stages[r] # AllStages) =>
            /\ res[r].status = 500
            /\ res[r].body = msg_errorProcessing
            /\ res[r].json = << >>
            /\ launches[r] <= 1
            /\ (tempDir[r] # << >> => WorkspaceGone(r))

\* ------------------------------------------------------------------ C3
\* C3: every request whose fixture has one of the extractor's validation
\* failures ends with status 400 and the reason of that failure, never gets a
\* workspace directory and never launches the transcoder.
C3_ValidationFailureShortCircuits ==
    \A r \in reqs :
        MustReject(fx[r]) =>
            /\ pc[r] \in {"start", "done"}
            /\ tempDir[r] = << >>
            /\ dirs \subseteq {tmpdir} \cup {tempDir[q] : q \in {x \in reqs : Acquired(x)}}
            /\ launches[r] = 0
            /\ proc[r].st = "none"
            /\ Done(r) =>
                /\ res[r].status = 400
                /\ res[r].body = ExpectedReason(fx[r])
                /\ res[r].json = << >>

C3_Witness ==
    \E r \in reqs, q \in reqs :
        /\ Done(r) /\ fx[r].defect = "none" /\ ~FirstPartIsAudio(fx[r])
        /\ res[r].status = 400
        /\ Done(q) /\ fx[q].defect = "no-closing" /\ res[q].status = 400

\* ------------------------------------------------------------------ C4
\* C4: in every 200 response the chunk records are in ascending
\* lexicographic order of their names, whatever order the listing had.
C4_ChunksAscendingByName ==
    \A r \in reqs :
        res[r].status = 200 =>
            \A i, j \in 1..Len(res[r].json) :
                i < j => LexLess(res[r].json[i].name, res[r].json[j].name)

\* ------------------------------------------------------------------ C5
\* C5: in every 200 response the names returned are exactly the names of the
\* segment files the transcoder wrote for this request, each once, each with
\* the full contents of its file, and the input file is not among them.
C5_ExactlyTheSegmentsWritten ==
    \A r \in reqs :
        res[r].status = 200 =>
            /\ JsonNames(r) = WrittenNames(r)
            /\ Len(res[r].json) = Cardinality(written[r])
            /\ \A i \in 1..Len(res[r].json) :
                /\ [name |-> res[r].json[i].name,
                    data |-> FromBase64(res[r].json[i].data)] \in written[r]
                /\ res[r].json[i].mime = str_audioMpeg
                /\ IsUnder(inputPath[r].path, tempDir[r])
                /\ res[r].json[i].name # inputPath[r].path[Len(inputPath[r].path)]

C5_Witness ==
    \E r \in reqs :
        /\ res[r].status = 200
        /\ Len(res[r].json) = 2
        /\ Cardinality(written[r]) = 2

\* ------------------------------------------------------------------ C6
\* the payload of the first part named audioFile of a fixture
HasAudioPart(f) == \E i \in 1..Len(f.parts) : f.parts[i].name = str_audioFile
AudioPayload(f) ==
    f.parts[SetMin({i \in 1..Len(f.parts) : f.parts[i].name = str_audioFile})].payload

\* C6 as stated: whenever a body with a part named audioFile, in any position
\* and among any number of parts, passes extraction, the bytes handed to the
\* Segmenter are the payload of the audioFile part.
C6_PayloadOfAudioPartAmongAnyParts ==
    \A r \in reqs :
        (Extracted(r) /\ HasAudioPart(fx[r])) =>
            fileForSplit[r].buffer = AudioPayload(fx[r])

\* C6 amended: a well-formed body whose only part is named audioFile always
\* passes extraction, and the bytes handed to the Segmenter (and written to
\* the input file) are byte for byte the payload of that part.
C6_PayloadOfSinglePart ==
    \A r \in reqs :
        (Len(fx[r].parts) = 1 /\ FirstPartIsAudio(fx[r]) /\ fx[r].defect = "none") =>
            /\ res[r].status # 400
            /\ Extracted(r) => fileForSplit[r].buffer = fx[r].parts[1].payload
            /\ HasStage(r, "write") =>
                [path |-> inputPath[r].path, data |-> fx[r].parts[1].payload] \in files

C6_Witness ==
    \E r \in reqs :
        /\ Len(fx[r].parts) = 1
        /\ fx[r].parts[1].payload = <<ch_cr, 255>>
        /\ HasStage(r, "write")
        /\ fileForSplit[r].buffer = <<ch_cr, 255>>

\* ------------------------------------------------------------------ C7
\* C7: concurrent requests never share a workspace; a 200 response holds
\* only chunks the transcoder wrote for that same request; and while a
\* request is running with its workspace, the directory, its input file and
\* every segment file written for it are still there, whatever the other
\* request has released meanwhile.
C7_WorkspacesIsolated ==
    \A r \in reqs :
        /\ \A q \in reqs \ {r} :
              (tempDir[r] # << >> /\ tempDir[q] # << >>) => tempDir[r] # tempDir[q]
        /\ res[r].status = 200 =>
              \A i \in 1..Len(res[r].json) :
                  [name |-> res[r].json[i].name,
                   data |-> FromBase64(res[r].json[i].data)] \in written[r]
        /\ Live(r) =>
              /\ tempDir[r] \in dirs
              /\ HasStage(r, "write") =>
                    [path |-> inputPath[r].path, data |-> fileForSplit[r].buffer] \in files
              /\ \A w \in written[r] :
                    [path |-> Join(tempDir[r], w.name).path, data |-> w.data] \in files

C7_Witness ==
    \E r \in reqs, q \in reqs :
        /\ r # q
        /\ res[r].status = 200 /\ Len(res[r].json) >= 1
        /\ Live(q) /\ written[q] # {}

\* ------------------------------------------------------------------ C8
\* C8: when the transcoder binary is not resolved, no request is answered
\* with a per-request 500.
C8_UnresolvedBinaryIsNotAPerRequestError ==
    ffmpegPath = "null" => \A r \in reqs : res[r].status # 500

\* ------------------------------------------------------------------ C9
\* the ordering part of C9: the completed stages of a request are an initial
\* part of extract, workspace, write, launch, exit, list, release, respond;
\* the listing has not started while the child is running; a 200 response
\* comes only after the release.
C9_Order(r) ==
    /\ IsPrefixOf(stages[r], AllStages)
    /\ (HasStage(r, "list") \/ pc[r] \in {"readdir", "read", "respond"}) =>
          proc[r].st = "exited"
    /\ res[r].status = 200 =>
          /\ stages[r] = AllStages
          /\ releases[r] = 1
          /\ WorkspaceGone(r)
    /\ ~Extracted(r) => launches[r] = 0

\* C9 as stated, taken with the transcoder binary resolved: the order above,
\* and exactly one launch in every request that passes extraction.
C9_OneLaunchWheneverExtracted ==
    \A r \in reqs :
        /\ C9_Order(r)
        /\ (ffmpegPath = "resolved" /\ Done(r) /\ Extracted(r)) => launches[r] = 1

\* C9 amended: the order above; at most one launch in any request, exactly
\* one in every request that reached the transcoder stage or was answered
\* 200, none in a request that stopped before it.
C9_StagesInOrderOneLaunch ==
    \A r \in reqs :
        /\ C9_Order(r)
        /\ launches[r] <= 1
        /\ (HasStage(r, "launch") \/ res[r].status = 200) => launches[r] = 1
        /\ (Done(r) /\ ~HasStage(r, "write")) => launches[r] = 0

C9_Witness ==
    \E r \in reqs, q \in reqs :
        /\ res[r].status = 200 /\ launches[r] = 1
        /\ Done(q) /\ Extracted(q) /\ res[q].status = 500 /\ launches[q] = 0

\* ----------------------------------------------------------------- C10
\* the extension the input file must get: the lower-cased text after the
\* last dot of the filename, mp3 when there is no filename, no dot, or
\* nothing after the last dot
ExpectedExt(fname) ==
    LET dots == {k \in 1..Len(fname) : fname[k] = ch_dot}
    IN  IF dots = {} THEN str_mp3
        ELSE LET last == CHOOSE k \in dots : \A j \in dots : j <= k
             IN  IF last = Len(fname) THEN str_mp3
                 ELSE ToLowerCase(SubSeq(fname, last + 1, Len(fname)))

\* C10: for every filename of the part header the input path is the join of
\* the workspace with input.<ext>, ext as above; it lies inside the
\* workspace; every file on disk lies inside the workspace; the only entry
\* of the workspace that no transcoder wrote is named input.<ext> and does
\* not start with chunk_; and no collected chunk is the input file.
C10_InputPathInsideWorkspace ==
    \A r \in reqs :
        LET fname == fx[r].parts[1].filename
            rel == str_inputDot \o ExpectedExt(fname)
        IN  /\ Extracted(r) =>
                fileForSplit[r].originalName = (IF fname = << >> THEN str_input ELSE fname)
            /\ inputPath[r].path # << >> =>
                /\ inputPath[r] = Join(tempDir[r], rel)
                /\ IsUnder(inputPath[r].path, tempDir[r])
            /\ \A f \in files :
                /\ IsUnder(f.path, tempDir[r])
                /\ (Len(f.path) = Len(tempDir[r]) + 1
                      /\ f.path[Len(f.path)] \notin WrittenNames(r)) =>
                        /\ f.path[Len(f.path)] = rel
                        /\ ~StartsWith(f.path[Len(f.path)], str_chunk_)
            /\ \A i \in 1..Len(chunks[r]) : chunks[r][i].name \in WrittenNames(r)

C10_Witness ==
    \E r \in reqs :
        /\ fx[r].parts[1].filename = <<97, ch_dot, 66>>
        /\ inputPath[r].path = tempDir[r] \o <<str_inputDot \o <<98>>>>
        /\ res[r].status = 200
        /\ Len(res[r].json) >= 1

====
